---------------------------- MODULE Spec2Model ----------------------------
(***************************************************************************)
(* Battleship bot (MyBattleshipBot over BattleshipBotAPI): the decision    *)
(* engine of src/battleship_bot.py as a state machine.  One bot instance   *)
(* lives through a sequence of place_ship_strategy / combat_strategy       *)
(* calls; each call receives a game-state snapshot and returns a move.     *)
(***************************************************************************)
EXTENDS Integers, Sequences, FiniteSets, TLC

VARIABLES
    remaining_ships,   \* self.remaining_ships: list of ship names
    blocked_cells,     \* self.blocked_cells: dict cell -> turn first seen "B"
    current_turn,      \* self.current_turn
    game_state,        \* the snapshot handed to the last call
    move               \* what the last call returned (or the exception it raised)

vars == <<remaining_ships, blocked_cells, current_turn, game_state, move>>

---------------------------------------------------------------------------
(* Game constants (battleship_api.py)                                      *)

BOARD_SIZE == 8

SHIP_TYPES == <<"ship_1x4", "ship_1x3", "ship_2x3", "ship_1x2">>

SHIP_SIZES ==
    [ship_1x4 |-> <<1, 4>>, ship_1x3 |-> <<1, 3>>,
     ship_2x3 |-> <<2, 3>>, ship_1x2 |-> <<1, 2>>]

ABILITY_CODES == {"SP", "RF", "SD", "HS"}

\* list(SHIP_SIZES.keys()): the keys in insertion order
ShipKeys == <<"ship_1x4", "ship_1x3", "ship_2x3", "ship_1x2">>

Rng == 0 .. (BOARD_SIZE - 1)

Cells == Rng \X Rng

Max2(a, b) == IF a >= b THEN a ELSE b

Abs(a) == IF a >= 0 THEN a ELSE -a

ShipLength(s) == Max2(SHIP_SIZES[s][1], SHIP_SIZES[s][2])

\* Row-major position of a cell: the order of "for r ... for c ..." scans
RowMajor(x) == x[1] * BOARD_SIZE + x[2]

\* grid[r][c] is readable: a malformed (short) grid raises on other cells
WellFormed(grid) == DOMAIN grid = Cells

\* All cells in the order of "for r in range(8): for c in range(8)"
AllCellsInOrder ==
    [i \in 1 .. (BOARD_SIZE * BOARD_SIZE) |->
        <<(i - 1) \div BOARD_SIZE, (i - 1) % BOARD_SIZE>>]

\* The cells of a set as a list in row-major order
SeqOfSet(S) == SelectSeq(AllCellsInOrder, LAMBDA x : x \in S)

SeqToSet(s) == {s[i] : i \in 1 .. Len(s)}

Reverse(s) == [i \in 1 .. Len(s) |-> s[Len(s) + 1 - i]]

---------------------------------------------------------------------------
(* Python floats.  prob_map holds IEEE-754 doubles built by repeated       *)
(* "+= 1.0 / ship_length".  A double v that arises this way is kept as the *)
(* pair <<E, D>> with v = E/12 + D*u, u = 2^-54 / 3: E is the exact sum in *)
(* twelfths and D the accumulated rounding error.  1.0/4 = <<3,0>>,        *)
(* 1.0/2 = <<6,0>>, and 1.0/3 rounds to 1/3 - u = <<4,-1>>.  An addition   *)
(* adds the pairs and rounds to the nearest multiple of the result's ulp   *)
(* (ties to even), as the hardware does.                                   *)

FZero == <<0, 0>>

\* 1.0 / float(ship_length)
Weight(len) ==
    CASE len = 4 -> <<3, 0>>
      [] len = 3 -> <<4, -1>>
      [] len = 2 -> <<6, 0>>

FLess(a, b) == a[1] < b[1] \/ (a[1] = b[1] /\ a[2] < b[2])

FPos(a) == FLess(FZero, a)

\* j with 2*ulp = 3 * 2^j units of u, for a value E/12 + D*u below 64
Binade(E, D) ==
    CASE FLess(<<E, D>>, <<6, 0>>)   -> 1
      [] FLess(<<E, D>>, <<12, 0>>)  -> 2
      [] FLess(<<E, D>>, <<24, 0>>)  -> 3
      [] FLess(<<E, D>>, <<48, 0>>)  -> 4
      [] FLess(<<E, D>>, <<96, 0>>)  -> 5
      [] FLess(<<E, D>>, <<192, 0>>) -> 6
      [] OTHER                       -> 7

\* a + b in double arithmetic, round-to-nearest-even
FAdd(a, b) ==
    LET E   == a[1] + b[1]
        D   == a[2] + b[2]
        j   == Binade(E, D)
        U   == 3 * 2 ^ (j - 1)
        \* 2^52 mod (3 * 2^j) = 2^j * (2^(52-j) mod 3)
        c   == IF (52 - j) % 2 = 0 THEN 1 ELSE 2
        R   == (E * (2 ^ j) * c + D) % (2 * U)
        rem == R % U
        q   == R \div U
        up  == 2 * rem > U \/ (2 * rem = U /\ q = 1)
    IN  <<E, IF up THEN D + (U - rem) ELSE D - rem>>

RECURSIVE FAddN(_, _, _)
\* n times "p += w"
FAddN(p, w, n) == IF n = 0 THEN p ELSE FAddN(FAdd(p, w), w, n - 1)

---------------------------------------------------------------------------
(* Probability Mapper                                                      *)

\* _can_place_ship: footprint in bounds and free of "M", "S", "B"
_can_place_ship(grid, start_r, start_c, rows, cols, orientation) ==
    \A c \in 0 .. (cols - 1), r \in 0 .. (rows - 1) :
        LET nr == IF orientation = "H" THEN start_r + r ELSE start_r + c
            nc == IF orientation = "H" THEN start_c + c ELSE start_c + r
        IN  /\ nr < BOARD_SIZE
            /\ nc < BOARD_SIZE
            /\ grid[<<nr, nc>>] \notin {"M", "S", "B"}

Min2(a, b) == IF a <= b THEN a ELSE b

\* the anchors of loops that stop one position short
\* ("range(8 - cols)")
Covering_Short(rows, cols, orientation, x) ==
    IF orientation = "H"
    THEN (Max2(0, x[1] - rows + 1) .. x[1])
            \X (Max2(0, x[2] - cols + 1) .. Min2(x[2], BOARD_SIZE - cols - 1))
    ELSE (Max2(0, x[1] - cols + 1) .. Min2(x[1], BOARD_SIZE - cols - 1))
            \X (Max2(0, x[2] - rows + 1) .. x[2])

\* The anchors <<r, c>> the placement loop of an orientation visits
\* ("for r in range(8): for c in range(8 - cols + 1)", and the transposed
\* loop for "V") whose footprint holds cell x
Covering(rows, cols, orientation, x) ==
    IF orientation = "H"
    THEN (Max2(0, x[1] - rows + 1) .. x[1])
            \X (Max2(0, x[2] - cols + 1) .. Min2(x[2], BOARD_SIZE - cols))
    ELSE (Max2(0, x[1] - cols + 1) .. Min2(x[1], BOARD_SIZE - cols))
            \X (Max2(0, x[2] - rows + 1) .. x[2])

\* the additions of the horizontal loop alone
Additions_HorizontalOnly(grid, s, x) ==
    LET rows == SHIP_SIZES[s][1]
        cols == SHIP_SIZES[s][2]
    IN  Cardinality({a \in Covering(rows, cols, "H", x) :
            _can_place_ship(grid, a[1], a[2], rows, cols, "H")})

\* How many times the loops of ship s add its weight to cell x
Additions(grid, s, x) ==
    LET rows == SHIP_SIZES[s][1]
        cols == SHIP_SIZES[s][2]
        n(o) == Cardinality({a \in Covering(rows, cols, o, x) :
                    _can_place_ship(grid, a[1], a[2], rows, cols, o)})
    IN  n("H") + n("V")

RECURSIVE AccumulateFrom(_, _, _, _, _)
\* prob_map[x] after the placement loops of roster[i..], started from p
AccumulateFrom(p, grid, roster, x, i) ==
    IF i > Len(roster) THEN p
    ELSE AccumulateFrom(
            FAddN(p, Weight(ShipLength(roster[i])), Additions(grid, roster[i], x)),
            grid, roster, x, i + 1)

\* _calculate_probability_map, cell by cell
_calculate_probability_map(grid, roster) ==
    [x \in Cells |-> AccumulateFrom(FZero, grid, roster, x, 1)]

\* A function over 1..n as a list whose elements are computed once
Listed(f) == SubSeq(f, 1, Len(f))

\* The scan of _get_highest_probability_cell: the "N" cells in row-major
\* order with their prob_map value
ScanUnknown(prob_map, grid) ==
    LET unknown == SelectSeq(AllCellsInOrder, LAMBDA x : grid[x] = "N")
    IN  Listed([i \in 1 .. Len(unknown) |-> <<unknown[i], prob_map[unknown[i]]>>])

\* best_cells after the scan: "p > max_prob" restarts the list and
\* "p == max_prob and p > 0" extends it, so what is left is the cells of
\* the greatest value, when that is positive, in scan order
BestCells(scanned) ==
    LET positive == SelectSeq(scanned, LAMBDA e : FPos(e[2]))
        values == {positive[i][2] : i \in 1 .. Len(positive)}
        max_prob == CHOOSE p \in values : \A q \in values : ~FLess(p, q)
        best == SelectSeq(positive, LAMBDA e : e[2] = max_prob)
    IN  IF Len(positive) = 0 THEN << >>
        ELSE [i \in 1 .. Len(best) |-> best[i][1]]

\* all remaining ships are even-sized (and there is one)
EvenOnly(roster) ==
    /\ Len(roster) > 0
    /\ \A i \in 1 .. Len(roster) : ShipLength(roster[i]) % 2 = 0

\* neighbour_score: the unshot 4-neighbours of a cell
neighbour_score(rc, grid) ==
    Cardinality({d \in {<<-1, 0>>, <<1, 0>>, <<0, -1>>, <<0, 1>>} :
        LET nr == rc[1] + d[1]
            nc == rc[2] + d[2]
        IN  /\ 0 <= nr /\ nr < BOARD_SIZE
            /\ 0 <= nc /\ nc < BOARD_SIZE
            /\ grid[<<nr, nc>>] = "N"})

\* the sort key of best_cells.sort(..., reverse=True)
SortKey(rc, grid) ==
    <<neighbour_score(rc, grid),
      -Abs(rc[1] - BOARD_SIZE \div 2) - Abs(rc[2] - BOARD_SIZE \div 2)>>

KeyLess(k1, k2) == k1[1] < k2[1] \/ (k1[1] = k2[1] /\ k1[2] < k2[2])

\* the parity filter applied whatever the roster
ParityFilter_AnyRoster(best_cells, roster) ==
    LET parity_cells == SelectSeq(best_cells, LAMBDA x : (x[1] + x[2]) % 2 = 0)
    IN  IF Len(parity_cells) > 0 THEN parity_cells ELSE best_cells

\* the parity filter of the hunt step
ParityFilter(best_cells, roster) ==
    LET parity_cells == SelectSeq(best_cells, LAMBDA x : (x[1] + x[2]) % 2 = 0)
    IN  IF EvenOnly(roster) /\ Len(parity_cells) > 0 THEN parity_cells
        ELSE best_cells

\* best_cells[0] after the stable descending sort: the first cell of the
\* list whose key no other cell's key exceeds
FirstAfterSort(cells, grid) ==
    LET keys == Listed([i \in 1 .. Len(cells) |-> SortKey(cells[i], grid)])
        top(i) == \A k \in 1 .. Len(cells) : ~KeyLess(keys[i], keys[k])
        i0 == CHOOSE i \in 1 .. Len(cells) :
                  top(i) /\ \A k \in 1 .. (i - 1) : ~top(k)
    IN  cells[i0]

None == "None"

\* _get_highest_probability_cell
_get_highest_probability_cell(prob_map, grid, roster) ==
    LET best_cells == BestCells(ScanUnknown(prob_map, grid))
    IN  IF Len(best_cells) = 0 THEN None
        ELSE FirstAfterSort(ParityFilter(best_cells, roster), grid)

RECURSIVE TakeHighest(_, _)
\* the first n of a list of <<cell, p>> after a stable sort by p, descending
TakeHighest(cells_with_prob, n) ==
    IF n = 0 \/ Len(cells_with_prob) = 0 THEN << >>
    ELSE LET top(i) == \A k \in 1 .. Len(cells_with_prob) :
                           ~FLess(cells_with_prob[i][2], cells_with_prob[k][2])
             i0 == CHOOSE i \in 1 .. Len(cells_with_prob) :
                       top(i) /\ \A k \in 1 .. (i - 1) : ~top(k)
             rest == [k \in 1 .. (Len(cells_with_prob) - 1) |->
                         IF k < i0 THEN cells_with_prob[k] ELSE cells_with_prob[k + 1]]
         IN  <<cells_with_prob[i0][1]>> \o TakeHighest(rest, n - 1)

\* _get_n_highest_probability_cells
_get_n_highest_probability_cells(prob_map, grid, n) ==
    LET cells_with_prob ==
            SelectSeq(ScanUnknown(prob_map, grid), LAMBDA e : FPos(e[2]))
    IN  TakeHighest(cells_with_prob, n)

---------------------------------------------------------------------------
(* Cluster Analyzer                                                        *)

\* the neighbour order of the flood fill and of single-cell targets
Directions == <<<<-1, 0>>, <<1, 0>>, <<0, -1>>, <<0, 1>>>>

RECURSIVE PushNeighbours(_, _, _, _, _)
\* the "for dr, dc in ..." loop of the flood fill: <<stack, visited>>
PushNeighbours(x, k, stack, visited, hit_set) ==
    IF k > Len(Directions) THEN <<stack, visited>>
    ELSE LET nxt == <<x[1] + Directions[k][1], x[2] + Directions[k][2]>>
         IN  IF nxt \in hit_set /\ nxt \notin visited
             THEN PushNeighbours(x, k + 1, Append(stack, nxt),
                                 visited \cup {nxt}, hit_set)
             ELSE PushNeighbours(x, k + 1, stack, visited, hit_set)

RECURSIVE Flood(_, _, _, _)
\* the "while stack" loop: <<cluster, visited>>
Flood(stack, visited, cluster, hit_set) ==
    IF Len(stack) = 0 THEN <<cluster, visited>>
    ELSE LET x == stack[Len(stack)]
             pushed == PushNeighbours(x, 1, SubSeq(stack, 1, Len(stack) - 1),
                                      visited, hit_set)
         IN  Flood(pushed[1], pushed[2], Append(cluster, x), hit_set)

RECURSIVE ClustersFrom(_, _, _, _, _)
\* the "for h in hits" loop
ClustersFrom(hits, i, visited, clusters, hit_set) ==
    IF i > Len(hits) THEN clusters
    ELSE IF hits[i] \in visited
         THEN ClustersFrom(hits, i + 1, visited, clusters, hit_set)
         ELSE LET f == Flood(<<hits[i]>>, visited \cup {hits[i]}, << >>, hit_set)
              IN  ClustersFrom(hits, i + 1, f[2], Append(clusters, f[1]), hit_set)

\* _find_hit_clusters: the list of clusters, each a list of cells
_find_hit_clusters(grid) ==
    LET hit_set == {x \in Cells : grid[x] = "H"}
    IN  ClustersFrom(SeqOfSet(hit_set), 1, {}, << >>, hit_set)

Rows(cluster) == {cluster[i][1] : i \in 1 .. Len(cluster)}

Cols(cluster) == {cluster[i][2] : i \in 1 .. Len(cluster)}

MinOf(S) == CHOOSE m \in S : \A n \in S : m <= n

MaxOf(S) == CHOOSE m \in S : \A n \in S : m >= n

\* the candidates list of _cluster_targets, before the filter
Candidates(cluster) ==
    IF Len(cluster) = 1
    THEN LET r == cluster[1][1]
             c == cluster[1][2]
         IN  <<<<r - 1, c>>, <<r + 1, c>>, <<r, c - 1>>, <<r, c + 1>>>>
    ELSE IF Cardinality(Rows(cluster)) = 1
    THEN LET row == cluster[1][1]
         IN  <<<<row, MinOf(Cols(cluster)) - 1>>, <<row, MaxOf(Cols(cluster)) + 1>>>>
    ELSE LET col == cluster[1][2]
         IN  <<<<MinOf(Rows(cluster)) - 1, col>>, <<MaxOf(Rows(cluster)) + 1, col>>>>

\* the filter without the test of the status
Shootable_InBounds(x, grid) ==
    /\ 0 <= x[1] /\ x[1] < BOARD_SIZE
    /\ 0 <= x[2] /\ x[2] < BOARD_SIZE

\* the filter of _cluster_targets: in bounds and "N"
Shootable(x, grid) ==
    /\ 0 <= x[1] /\ x[1] < BOARD_SIZE
    /\ 0 <= x[2] /\ x[2] < BOARD_SIZE
    /\ grid[x] = "N"

\* _cluster_targets
_cluster_targets(cluster, grid) ==
    SelectSeq(Candidates(cluster), LAMBDA x : Shootable(x, grid))

RECURSIVE EstimateFrom(_, _, _)
\* the "for ship_name in self.remaining_ships" loop of _estimate_remaining_hits
EstimateFrom(cluster, roster, i) ==
    IF i > Len(roster) THEN 4 - Len(cluster)
    ELSE LET ship_length == ShipLength(roster[i])
         IN  IF Len(cluster) >= ship_length THEN 0
             ELSE IF Cardinality(Rows(cluster)) = 1 \/ Cardinality(Cols(cluster)) = 1
                  THEN ship_length - Len(cluster)
                  ELSE EstimateFrom(cluster, roster, i + 1)

\* _estimate_remaining_hits
_estimate_remaining_hits(cluster, roster) == EstimateFrom(cluster, roster, 1)

\* min(clusters, key=estimate): the first cluster of the list with the
\* least estimate
MinCluster(clusters, roster) ==
    LET least(i) == \A k \in 1 .. Len(clusters) :
                        _estimate_remaining_hits(clusters[i], roster)
                            <= _estimate_remaining_hits(clusters[k], roster)
        i0 == CHOOSE i \in 1 .. Len(clusters) :
                  least(i) /\ \A k \in 1 .. (i - 1) : ~least(k)
    IN  clusters[i0]

RECURSIVE SortClusters(_, _)
\* clusters.sort(key=estimate): stable, ascending
SortClusters(clusters, roster) ==
    IF Len(clusters) = 0 THEN << >>
    ELSE LET first == MinCluster(clusters, roster)
             i0 == CHOOSE i \in 1 .. Len(clusters) :
                       clusters[i] = first /\ \A k \in 1 .. (i - 1) : clusters[k] # first
             rest == [k \in 1 .. (Len(clusters) - 1) |->
                         IF k < i0 THEN clusters[k] ELSE clusters[k + 1]]
         IN  <<first>> \o SortClusters(rest, roster)

---------------------------------------------------------------------------
(* Bot State                                                               *)
(* blocked_cells is a dict: a list of <<cell, turn>> entries in insertion  *)
(* order, one per key.                                                      *)

Tracked(blocked) == {blocked[i][1] : i \in 1 .. Len(blocked)}

\* the first cell of the row-major scan that grid[r][c] cannot read
FirstUnreadable(grid) ==
    CHOOSE x \in Cells \ DOMAIN grid :
        \A y \in Cells \ DOMAIN grid : RowMajor(x) <= RowMajor(y)

\* _track_blocked_cells, for the cells the scan reaches before position stop
TrackUpTo(grid, blocked, turn, stop) ==
    LET new == {x \in DOMAIN grid :
                   /\ RowMajor(x) < stop
                   /\ grid[x] = "B"
                   /\ x \notin Tracked(blocked)}
        order == SeqOfSet(new)
    IN  blocked \o [i \in 1 .. Len(order) |-> <<order[i], turn>>]

\* every Blocked cell of the grid stamped with the turn of the call,
\* tracked or not
_track_blocked_cells_Restamped(grid, blocked, turn) ==
    LET shown == SeqOfSet({x \in DOMAIN grid : grid[x] = "B"})
    IN  SelectSeq(blocked, LAMBDA e : grid[e[1]] # "B")
            \o [i \in 1 .. Len(shown) |-> <<shown[i], turn>>]

\* _track_blocked_cells on a grid the scan can read to the end
_track_blocked_cells(grid, blocked, turn) ==
    TrackUpTo(grid, blocked, turn, BOARD_SIZE * BOARD_SIZE)

\* an entry counted ready one turn early
Ready_Early(entry, turn) == turn - entry[2] >= 2

\* "self.current_turn - blocked_turn >= 3"
Ready(entry, turn) == turn - entry[2] >= 3

\* _get_retry_blocked_cell: <<returned cell or None, blocked_cells after>>
_get_retry_blocked_cell(blocked, turn) ==
    LET ready_cells == SelectSeq(blocked, LAMBDA e : Ready(e, turn))
        kept == SelectSeq(blocked, LAMBDA e : ~Ready(e, turn))
    IN  <<IF Len(ready_cells) > 0 THEN ready_cells[1][1] ELSE None, kept>>

\* game_state.get(key, default)
Get(gs, key, default) == IF key \in DOMAIN gs THEN gs[key] ELSE default

\* the roster rebuilt from the report alone
_update_remaining_ships_Rebuilt(gs, roster) ==
    LET reported == Get(gs, "opponent_ships", {})
    IN  SelectSeq(SHIP_TYPES, LAMBDA s :
            ~\E ship \in reported : ship.name = s /\ ship.sunk)

\* _update_remaining_ships
_update_remaining_ships(gs, roster) ==
    LET reported == Get(gs, "opponent_ships", {})
    IN  SelectSeq(roster, LAMBDA s :
            ~\E ship \in reported : ship.name = s /\ ship.sunk)

\* the default of _get_opponent_grid: [['N'] * 8 for _ in range(8)]
DefaultGrid == [x \in Cells |-> "N"]

\* _get_opponent_grid
_get_opponent_grid(gs) == Get(gs, "opponent_grid", DefaultGrid)

\* _get_available_abilities
_get_available_abilities(gs) == Get(gs, "player_abilities", {}) \cap ABILITY_CODES

---------------------------------------------------------------------------
(* Target Selector                                                         *)

RECURSIVE Flatten(_)
Flatten(lists) ==
    IF Len(lists) = 0 THEN << >> ELSE lists[1] \o Flatten(Tail(lists))

RECURSIVE PickTwo(_, _, _)
\* the nested loops of _rf_targets over the cluster targets: picks, which
\* stops growing at two
PickTwo(flat, i, picks) ==
    IF i > Len(flat) \/ Len(picks) = 2 THEN picks
    ELSE IF flat[i] \in SeqToSet(picks) THEN PickTwo(flat, i + 1, picks)
         ELSE PickTwo(flat, i + 1, Append(picks, flat[i]))

\* _rf_targets; clusters is the list _find_hit_clusters(grid) returned
_rf_targets(grid, clusters, roster, blocked, turn) ==
    LET sorted == SortClusters(clusters, roster)
        picks == PickTwo(
                    Flatten([i \in 1 .. Len(sorted) |-> _cluster_targets(sorted[i], grid)]),
                    1, << >>)
        prob_map == _calculate_probability_map(grid, roster)
        extra == _get_n_highest_probability_cells(prob_map, grid, 1)
        ready == SelectSeq(blocked, LAMBDA e : Ready(e, turn))
    IN  IF Len(clusters) > 0 /\ Len(picks) = 2 THEN picks
        ELSE IF Len(clusters) > 0 /\ Len(picks) = 1
        THEN IF Len(extra) > 0 /\ extra[1] \notin SeqToSet(picks)
             THEN Append(picks, extra[1])
             ELSE picks
        ELSE IF Len(ready) >= 2 THEN <<ready[1][1], ready[2][1]>>
        ELSE _get_n_highest_probability_cells(prob_map, grid, 2)

\* the returned dictionaries
CombatMove(cell, ability) == [combat |-> [cell |-> cell, ability |-> ability]]

NoAbility == [None |-> << >>]

UseHS == [HS |-> << >>]

UseRF(t1, t2) == [RF |-> <<t1, t2>>]

\* the fallback loop: the first "N" cell in row-major order, else (0,0)
FallbackCell(grid) ==
    LET unknown == {x \in Cells : grid[x] = "N"}
    IN  IF unknown = {} THEN <<0, 0>>
        ELSE CHOOSE x \in unknown : \A y \in unknown : RowMajor(x) <= RowMajor(y)

\* Decide with the double-shot test ahead of the board-wide test
Decide_DoubleShotFirst(grid, abilities, clusters, roster, blocked, turn) ==
    LET targets == _rf_targets(grid, clusters, roster, blocked, turn)
    IN  IF "RF" \in abilities /\ Len(targets) >= 2
        THEN [move |-> CombatMove(<<0, 0>>, UseRF(targets[1], targets[2])),
              blocked |-> blocked]
        ELSE [move |-> CombatMove(<<0, 0>>, UseHS), blocked |-> blocked]

\* The decision of combat_strategy after the bot state was updated (lines
\* 98-179), for the cluster list _find_hit_clusters returned:
\* [move, blocked]: the returned dictionary and blocked_cells at return
Decide(grid, abilities, clusters, roster, blocked, turn) ==
    LET targets == _rf_targets(grid, clusters, roster, blocked, turn)
        cluster == MinCluster(clusters, roster)
        ctargets == _cluster_targets(cluster, grid)
        retry == _get_retry_blocked_cell(blocked, turn)
        best_cell == _get_highest_probability_cell(
                        _calculate_probability_map(grid, roster), grid, roster)
    IN  IF "HS" \in abilities
        THEN [move |-> CombatMove(<<0, 0>>, UseHS), blocked |-> blocked]
        ELSE IF "RF" \in abilities /\ Len(targets) >= 2
        THEN [move |-> CombatMove(<<0, 0>>, UseRF(targets[1], targets[2])),
              blocked |-> blocked]
        ELSE IF Len(clusters) > 0 /\ Len(ctargets) > 0
        THEN [move |-> CombatMove(ctargets[1], NoAbility), blocked |-> blocked]
        ELSE IF retry[1] # None
        THEN [move |-> CombatMove(retry[1], NoAbility), blocked |-> retry[2]]
        ELSE IF best_cell # None
        THEN [move |-> CombatMove(best_cell, NoAbility), blocked |-> retry[2]]
        ELSE [move |-> CombatMove(FallbackCell(grid), NoAbility), blocked |-> retry[2]]

Raised(exception) == [raised |-> exception]

\* combat_strategy(game_state)
combat_strategy(gs) ==
    LET turn == current_turn + 1
        grid == _get_opponent_grid(gs)
        abilities == _get_available_abilities(gs)
    IN  /\ current_turn' = turn
        /\ game_state' = gs
        /\ IF WellFormed(grid)
           THEN LET blocked == _track_blocked_cells(grid, blocked_cells, turn)
                    roster == _update_remaining_ships(gs, remaining_ships)
                    d == Decide(grid, abilities, _find_hit_clusters(grid),
                                roster, blocked, turn)
                IN  /\ remaining_ships' = roster
                    /\ blocked_cells' = d.blocked
                    /\ move' = d.move
           ELSE \* grid[r][c] raises inside _track_blocked_cells
                /\ remaining_ships' = remaining_ships
                /\ blocked_cells' = TrackUpTo(grid, blocked_cells, turn,
                                              RowMajor(FirstUnreadable(grid)))
                /\ move' = Raised("IndexError")

---------------------------------------------------------------------------
(* Ship placement                                                          *)

\* _get_ship_cells (battleship_api.py): the cells of a ship, [] when the
\* name is unknown or a cell is out of bounds
_get_ship_cells(ship_name, start_row, start_col, orientation) ==
    IF ship_name \notin DOMAIN SHIP_SIZES THEN {}
    ELSE LET rows == SHIP_SIZES[ship_name][1]
             cols == SHIP_SIZES[ship_name][2]
             cells == IF orientation = "H"
                      THEN {<<start_row + r, start_col + c>> :
                                c \in 0 .. (cols - 1), r \in 0 .. (rows - 1)}
                      ELSE {<<start_row + r, start_col + c>> :
                                r \in 0 .. (cols - 1), c \in 0 .. (rows - 1)}
         IN  IF \E x \in cells : x[1] >= BOARD_SIZE \/ x[2] >= BOARD_SIZE
             THEN {} ELSE cells

\* _is_valid_placement
_is_valid_placement(cells, placed_coords) == cells \cap placed_coords = {}

\* _get_placed_coordinates
_get_placed_coordinates(gs) ==
    UNION {ship.coordinates : ship \in Get(gs, "player_ships", {})}

\* the preset table of place_ship_strategy
Preset ==
    [ship_1x4 |-> [cell |-> <<6, 2>>, direction |-> "H"],
     ship_1x3 |-> [cell |-> <<5, 0>>, direction |-> "V"],
     ship_2x3 |-> [cell |-> <<3, 4>>, direction |-> "H"],
     ship_1x2 |-> [cell |-> <<0, 6>>, direction |-> "V"]]

Placement(ship_name, cell, direction) ==
    [placement |-> [name |-> ship_name, cell |-> cell, direction |-> direction]]

\* The draws of random.randint(0, 7) x2 and random.choice(['H', 'V']) the
\* model follows: three anchors, both orientations
RandomDraws == {<<0, 0>>, <<3, 4>>, <<7, 7>>} \X {"H", "V"}

\* _get_random_placement: what the random draws can return: the placement
\* of any draw that fits (None, when no draw fitted, is the caller's other
\* branch)
RandomPlacements(ship_name, placed_coords) ==
    {Placement(ship_name, d[1], d[2]) : d \in
        {d \in RandomDraws :
            LET cells == _get_ship_cells(ship_name, d[1][1], d[1][2], d[2])
            IN  cells # {} /\ _is_valid_placement(cells, placed_coords)}}

\* place_ship_strategy(ship_name, game_state): the bot state is not touched
place_ship_strategy(ship_name, gs) ==
    LET placed == _get_placed_coordinates(gs)
        cell == Preset[ship_name].cell
        direction == Preset[ship_name].direction
        cells == _get_ship_cells(ship_name, cell[1], cell[2], direction)
    IN  /\ game_state' = gs
        /\ UNCHANGED <<remaining_ships, blocked_cells, current_turn>>
        /\ IF ship_name \in DOMAIN Preset /\ cells # {}
                /\ _is_valid_placement(cells, placed)
           THEN move' = Placement(ship_name, cell, direction)
           ELSE \/ \E rnd \in RandomPlacements(ship_name, placed) :
                       move' = [placement |-> rnd]
                \/ move' = Placement(ship_name, <<0, 0>>, "H")

---------------------------------------------------------------------------
(* The bot and its environment                                             *)

\* no call was made yet
NoMove == [none |-> << >>]

\* MyBattleshipBot.__init__
Init ==
    /\ remaining_ships = ShipKeys
    /\ blocked_cells = << >>
    /\ current_turn = 0
    /\ game_state = << >>
    /\ move = NoMove

\* Boards the environment hands in
Fill(status) == [x \in Cells |-> status]

Paint(grid, S, status) == [x \in DOMAIN grid |-> IF x \in S THEN status ELSE grid[x]]

\* a malformed grid: only the first n rows are there
Truncate(grid, n) == [x \in {y \in Cells : y[1] < n} |-> grid[x]]

\* a combat snapshot: the grid, the abilities left, the sunk flags
Snapshot(grid, abilities, sunk) ==
    [opponent_grid |-> grid,
     player_abilities |-> abilities,
     opponent_ships |-> {[name |-> s, sunk |-> s \in sunk] : s \in SeqToSet(SHIP_TYPES)}]

\* a placement snapshot: the ships placed so far
PlacementSnapshot(placed) ==
    [player_ships |-> {[name |-> "placed", coordinates |-> placed]}]

\* the sunk flags the environment reports
SunkReports == {{}, {"ship_1x3", "ship_2x3"}, {"ship_1x3"}}

\* Late in a game: the board is shot at (one ship is sunk) except for an
\* open stretch of water
OpenWater == (4 .. 5) \X (2 .. 5)

LateGame == Paint(Paint(Fill("M"), {<<0, 0>>, <<0, 1>>}, "S"), OpenWater, "N")

Shielded == Paint(LateGame, {<<4, 2>>, <<5, 5>>}, "B")

OneShield == Paint(LateGame, {<<5, 5>>}, "B")

ShieldedHit == Paint(OneShield, {<<4, 4>>}, "H")

Spent == Fill("M")

LastCell == Paint(Spent, {<<7, 7>>}, "N")

Short == Truncate(Shielded, 5)

GameGrids == {LateGame, Shielded, ShieldedHit, Spent, LastCell, Short}

GameSnapshots ==
    {Snapshot(g, ab, sunk) :
        g \in GameGrids, ab \in SUBSET {"HS", "RF"}, sunk \in SunkReports}

MaxTurn == 2

\* The calls run_bot makes on a bot (it builds one bot per process and makes
\* one call on it), made here on one instance that is kept: the placement
\* calls come first, ships are placed before the first combat call
Place ==
    /\ current_turn = 0
    /\ \E ship_name \in SeqToSet(SHIP_TYPES),
          placed \in {{}, {<<6, 2>>, <<5, 0>>, <<3, 4>>, <<0, 6>>}} :
            place_ship_strategy(ship_name, PlacementSnapshot(placed))

Combat ==
    /\ current_turn < MaxTurn
    /\ \E gs \in GameSnapshots : combat_strategy(gs)

Next == Place \/ Combat

\* A game: the placement calls, then combat calls on late-game boards
Spec == Init /\ [][Next]_vars

\* Shields: a longer run of combat calls on boards with shielded cells
ShieldSnapshots ==
    {Snapshot(g, ab, sunk) :
        g \in {LateGame, OneShield, Shielded, ShieldedHit},
        ab \in {{}, {"RF"}, {"HS"}},
        sunk \in {{}, {"ship_1x3", "ship_2x3"}}}

MaxShieldTurn == 6

ShieldCombat ==
    /\ current_turn < MaxShieldTurn
    /\ \E gs \in ShieldSnapshots : combat_strategy(gs)

SpecShield == Init /\ [][ShieldCombat]_vars

\* Boards: the first decision of a fresh bot on every board of a family
\* (a corner of the board in any mix of unknown, hit and missed cells, the
\* rest already shot at; and the open board of an opening, with or without
\* a miss in its centre)
Corner == (0 .. 2) \X (0 .. 1)

CornerBoards ==
    {[x \in Cells |-> IF x \in Corner THEN f[x] ELSE "M"] :
        f \in [Corner -> {"N", "H", "M"}]}

OpeningBoards == {Paint(Fill("N"), S, "M") : S \in SUBSET {<<3, 4>>, <<4, 4>>}}

\* a lone Hit, and three collinear Hits, on an otherwise Unknown board
ScenarioBoards ==
    {Paint(Fill("N"), {<<3, 3>>}, "H"),
     Paint(Fill("N"), {<<2, 2>>, <<2, 3>>, <<2, 4>>}, "H")}

BoardSunk ==
    {{}, {"ship_1x3", "ship_2x3"}, {"ship_1x4", "ship_2x3"},
     {"ship_1x4", "ship_1x2"}, SeqToSet(SHIP_TYPES)}

BoardSnapshots ==
    {Snapshot(g, ab, sunk) :
        g \in CornerBoards \cup OpeningBoards \cup ScenarioBoards, ab \in {{}, {"RF"}}, sunk \in BoardSunk}

BoardCall ==
    /\ current_turn = 0
    /\ \E gs \in BoardSnapshots : combat_strategy(gs)

SpecBoard == Init /\ [][BoardCall]_vars

---------------------------------------------------------------------------
(* The last call, read back from the state it left                         *)

\* a combat_strategy call returned a move (it did not raise)
Answered == "combat" \in DOMAIN move

LastGrid == _get_opponent_grid(game_state)

LastAbilities == _get_available_abilities(game_state)

LastClusters == _find_hit_clusters(LastGrid)

\* The list _rf_targets computed in the last call.  blocked_cells at return
\* is blocked_cells as the pairing saw it unless the retry step ran, and the
\* retry step runs only after a pairing that found fewer than two ready
\* entries, which then returned the hunt cells as it does without them.
LastTargets ==
    _rf_targets(LastGrid, LastClusters, remaining_ships, blocked_cells, current_turn)

LastAbility == move.combat.ability

Entries(blocked) == {blocked[i] : i \in 1 .. Len(blocked)}

---------------------------------------------------------------------------
(* Decision order                                                          *)

\* C1 (as stated): whenever RF is available and two targets can be
\* computed the move fires RF at those two cells, also when HS is
\* available in the same call; HS is used only when the double-shot path
\* does not apply.
C1_DoubleShotBeforeBoardWide ==
    Answered =>
        /\ ("RF" \in LastAbilities /\ Len(LastTargets) >= 2)
              => move = CombatMove(<<0, 0>>, UseRF(LastTargets[1], LastTargets[2]))
        /\ "HS" \in DOMAIN LastAbility
              => ~("RF" \in LastAbilities /\ Len(LastTargets) >= 2)

\* C1 (amended): the board-wide ability comes first.  Whenever HS is
\* available the move fires HS at (0,0), also when RF is available and two
\* targets can be computed; RF is fired, at the first two computed targets,
\* exactly when HS is not available, RF is, and the pairing computed two
\* targets.
C1_BoardWideBeforeDoubleShot ==
    Answered =>
        /\ "HS" \in LastAbilities <=> move = CombatMove(<<0, 0>>, UseHS)
        /\ "HS" \in LastAbilities <=> "HS" \in DOMAIN LastAbility
        /\ ("HS" \notin LastAbilities /\ "RF" \in LastAbilities /\ Len(LastTargets) >= 2)
              <=> "RF" \in DOMAIN LastAbility
        /\ "RF" \in DOMAIN LastAbility
              => move = CombatMove(<<0, 0>>, UseRF(LastTargets[1], LastTargets[2]))

\* both abilities were available, two targets could be computed, and the
\* call fired HS
C1_BothAvailable ==
    /\ Answered
    /\ {"HS", "RF"} \subseteq LastAbilities
    /\ Len(LastTargets) >= 2
    /\ move = CombatMove(<<0, 0>>, UseHS)

---------------------------------------------------------------------------
(* Roster                                                                  *)

NoDuplicates(list) ==
    \A i, k \in 1 .. Len(list) : list[i] = list[k] => i = k

\* the names the snapshot of a call reports sunk
ReportedSunk(gs) ==
    {ship.name : ship \in {s \in Get(gs, "opponent_ships", {}) : s.sunk}}

\* C2: over any sequence of calls the roster only shrinks: every step
\* leaves a duplicate-free list of the initial ship types that is the
\* previous list without some of its elements (so a removed identifier never
\* comes back), and a call that returns leaves none of the ships its
\* snapshot reports sunk, whether or not an earlier call removed them.
C2_RosterOnlyShrinks ==
    [][/\ SeqToSet(remaining_ships') \subseteq SeqToSet(remaining_ships)
       /\ SeqToSet(remaining_ships') \subseteq SeqToSet(SHIP_TYPES)
       /\ NoDuplicates(remaining_ships')
       /\ remaining_ships' =
             SelectSeq(remaining_ships, LAMBDA s : s \in SeqToSet(remaining_ships'))
       /\ "combat" \in DOMAIN move'
             => SeqToSet(remaining_ships') =
                   SeqToSet(remaining_ships) \ ReportedSunk(game_state')]_vars

\* a ship removed by an earlier call is reported sunk again: the last
\* snapshot reports ship_1x3 alone, and ship_2x3, which only the report of
\* both removes, is gone too
C2_ReportedAgain ==
    /\ Answered
    /\ ReportedSunk(game_state) = {"ship_1x3"}
    /\ remaining_ships = <<"ship_1x4", "ship_1x2">>

---------------------------------------------------------------------------
(* Blocked-cell timer                                                      *)

UniqueKeys(blocked) ==
    \A i, k \in 1 .. Len(blocked) : blocked[i][1] = blocked[k][1] => i = k

\* no cluster of the list has a target: the double-shot pairing finds no
\* pick and the cluster step does not return
NoClusterTarget(grid, clusters) ==
    \A i \in 1 .. Len(clusters) : Len(_cluster_targets(clusters[i], grid)) = 0

\* C3: over any sequence of calls an entry leaves blocked_cells only in a
\* call in which current_turn - recorded_turn >= 3 (an entry recorded at
\* turn 2 is still there after the call of turn 4), and it leaves at most
\* once: what a call adds carries the turn of that call, which no earlier
\* entry carries, so a removed entry is never back.  When the single-shot
\* retry step inspects the timer (no ability, no cluster target) every
\* entry of age >= 3 is removed and the first of them is fired at (an entry
\* recorded at turn 2 goes in the call of turn 5).
C3_RemovedOnlyWhenReady ==
    [][LET grid == _get_opponent_grid(game_state')
           gone == Entries(blocked_cells) \ Entries(blocked_cells')
           added == Entries(blocked_cells') \ Entries(blocked_cells)
           of_age == SelectSeq(blocked_cells, LAMBDA e : current_turn' - e[2] >= 3)
       IN  /\ \A e \in gone : current_turn' - e[2] >= 3
           /\ \A e \in added : e[2] = current_turn'
           /\ \A e \in Entries(blocked_cells) : e[2] <= current_turn
           /\ UniqueKeys(blocked_cells')
           /\ (/\ _get_available_abilities(game_state') = {}
               /\ NoClusterTarget(grid, _find_hit_clusters(grid)))
                 => /\ \A e \in Entries(blocked_cells') : current_turn' - e[2] < 3
                    /\ Len(of_age) > 0
                          => move' = CombatMove(of_age[1][1], NoAbility)]_vars

\* the call of turn 5 retried (5,5), still shown Blocked, and took it out
\* of the timer
C3_RetriedAtTurnFive ==
    /\ Answered
    /\ current_turn = 5
    /\ LastGrid[<<5, 5>>] = "B"
    /\ move = CombatMove(<<5, 5>>, NoAbility)
    /\ <<5, 5>> \notin Tracked(blocked_cells)

\* the double-shot pairing looked for ready entries in the last call: HS
\* was not available, RF was, and no cluster had a target
PairingInspected ==
    /\ "HS" \notin LastAbilities
    /\ "RF" \in LastAbilities
    /\ NoClusterTarget(LastGrid, LastClusters)

\* the single-shot retry step ran in the last call
RetryStepRan ==
    /\ LastAbility = NoAbility
    /\ NoClusterTarget(LastGrid, LastClusters)

\* C4 (as stated): an entry of age >= 3 that a call inspects as ready, in
\* the single-shot retry step or in the double-shot pairing, is consumed:
\* it is not in blocked_cells when the call returns.  Both inspections
\* walk the timer from its first entry, so after either no entry of age
\* >= 3 comes first.
C4_InspectedEntriesConsumed ==
    (Answered /\ (PairingInspected \/ RetryStepRan))
        => LET of_age == SelectSeq(blocked_cells, LAMBDA e : current_turn - e[2] >= 3)
           IN  /\ Len(of_age) > 0 => "RF" \notin DOMAIN LastAbility
               /\ Len(of_age) > 0
                     => of_age[1][1] \notin {LastAbility.RF[1], LastAbility.RF[2]}

\* C5: every call that returns, on whatever path, adds exactly 1 to
\* current_turn (no step lowers it); adds to blocked_cells every cell the
\* grid shows Blocked that was not tracked, with the incremented turn as
\* value, and nothing else; leaves every tracked entry as it was, unless
\* the retry step removed it at age >= 3; and leaves as roster the previous
\* roster without the ships the snapshot reports sunk.
C5_BotStateUpdate ==
    [][/\ current_turn' >= current_turn
       /\ "combat" \in DOMAIN move'
             => LET grid == _get_opponent_grid(game_state')
                    old == Entries(blocked_cells)
                    new == Entries(blocked_cells')
                IN  /\ current_turn' = current_turn + 1
                    /\ \A x \in Cells :
                          (grid[x] = "B" /\ x \notin Tracked(blocked_cells))
                              => <<x, current_turn'>> \in new
                    /\ \A e \in new \ old :
                          /\ e[2] = current_turn'
                          /\ grid[e[1]] = "B"
                          /\ e[1] \notin Tracked(blocked_cells)
                    /\ \A e \in old \ new :
                          /\ current_turn' - e[2] >= 3
                          /\ e[1] \notin Tracked(blocked_cells')
                    /\ UniqueKeys(blocked_cells')
                    /\ remaining_ships' =
                          SelectSeq(remaining_ships,
                                    LAMBDA s : s \notin ReportedSunk(game_state'))]_vars

\* a call on an ability path found one Blocked cell already tracked and one
\* new, kept the old value of the first and gave the other the incremented
\* turn, and took the ships reported sunk off the roster
C5_TrackedAcrossCalls ==
    /\ Answered
    /\ LastAbility # NoAbility
    /\ remaining_ships = <<"ship_1x4", "ship_1x2">>
    /\ ReportedSunk(game_state) # {}
    /\ \E e1, e2 \in Entries(blocked_cells) :
          /\ e1[2] < e2[2]
          /\ e2[2] = current_turn
          /\ LastGrid[e1[1]] = "B"
          /\ LastGrid[e2[1]] = "B"

---------------------------------------------------------------------------
(* Returned moves                                                          *)

ValidCombatMove(m) ==
    /\ DOMAIN m = {"combat"}
    /\ DOMAIN m.combat = {"cell", "ability"}
    /\ m.combat.cell \in Cells
    /\ \/ m.combat.ability = NoAbility
       \/ m.combat.ability = UseHS
       \/ /\ DOMAIN m.combat.ability = {"RF"}
          /\ Len(m.combat.ability.RF) = 2
          /\ \A i \in 1 .. 2 : m.combat.ability.RF[i] \in Cells

ValidPlacement(m) ==
    /\ DOMAIN m = {"placement"}
    /\ DOMAIN m.placement = {"name", "cell", "direction"}
    /\ m.placement.name \in SeqToSet(SHIP_TYPES)
    /\ m.placement.cell \in Cells
    /\ m.placement.direction \in {"H", "V"}

\* C6 (as stated): every call returns a structurally valid move and none
\* raises: after a combat_strategy call, whatever the snapshot, move is one
\* combat move with an in-bounds cell and an ability tag None, HS or RF with
\* two cells, which on a board without Unknown cell, timer entry of age or
\* ability is the shot at (0,0); after a place_ship_strategy call move is
\* one placement of ship name, anchor cell and direction, also when the
\* preset was rejected.
C6_AlwaysValidMove ==
    /\ (current_turn > 0 /\ "opponent_grid" \in DOMAIN game_state)
          => /\ ValidCombatMove(move)
             /\ (/\ \A x \in Cells : LastGrid[x] # "N"
                 /\ LastAbilities = {}
                 /\ LastGrid = Spent)
                   => move = CombatMove(<<0, 0>>, NoAbility)
    /\ (current_turn = 0 /\ move # NoMove) => ValidPlacement(move)

---------------------------------------------------------------------------
(* Cluster order                                                           *)

AsSets(clusters) == {SeqToSet(clusters[i]) : i \in 1 .. Len(clusters)}

\* C7 (as stated): the selection does not depend on the order in which
\* the clusters were discovered: the decision taken with the cluster list
\* of _find_hit_clusters reversed has the same clusters, as sets of cells,
\* and returns the move the call returned (the single-shot target of the
\* cluster step, the two cells of the double-shot pairing).
C7_OrderIndependent ==
    (Answered /\ current_turn = 1)
        => LET reversed == Reverse(LastClusters)
               again == Decide(LastGrid, LastAbilities, reversed, remaining_ships,
                               blocked_cells, current_turn)
           IN  /\ AsSets(reversed) = AsSets(LastClusters)
               /\ again.move = move

---------------------------------------------------------------------------
(* Hunting                                                                 *)

Central == {<<3, 3>>, <<3, 4>>, <<4, 3>>, <<4, 4>>}

\* the opening: all cells Unknown, no ship sunk, no ability
Opening ==
    /\ Answered
    /\ LastGrid = Fill("N")
    /\ remaining_ships = SHIP_TYPES
    /\ LastAbilities = {}

\* C8: on the all-Unknown board with the full roster and no ability the
\* cells where _calculate_probability_map is highest are exactly (3,3),
\* (3,4), (4,3) and (4,4), and the call fires a single shot at one of them.
C8_OpeningCentre ==
    Opening =>
        LET prob_map == _calculate_probability_map(LastGrid, remaining_ships)
            p == Listed([i \in 1 .. Len(AllCellsInOrder) |-> prob_map[AllCellsInOrder[i]]])
            highest == {AllCellsInOrder[i] : i \in
                           {i \in 1 .. Len(p) : \A k \in 1 .. Len(p) : ~FLess(p[i], p[k])}}
        IN  /\ highest = Central
            /\ move.combat.cell \in Central
            /\ LastAbility = NoAbility

\* the opening call was made and fired at a central cell
C8_OpeningShot ==
    /\ Opening
    /\ current_turn = 1
    /\ move = CombatMove(<<4, 4>>, NoAbility)

\* the cells of highest density among the Unknown cells of the last grid
LastBest ==
    SeqToSet(BestCells(ScanUnknown(
        _calculate_probability_map(LastGrid, remaining_ships), LastGrid)))

\* the hunt step chose the target of the last call: a first call (no timer
\* entry is of age), no ability fired, no cluster target, some Unknown
\* cell of positive density
HuntStepChose ==
    /\ Answered
    /\ current_turn = 1
    /\ LastAbility = NoAbility
    /\ NoClusterTarget(LastGrid, LastClusters)
    /\ LastBest # {}

Even(x) == (x[1] + x[2]) % 2 = 0

EvenSizes(roster) ==
    /\ Len(roster) > 0
    /\ \A i \in 1 .. Len(roster) : ShipLength(roster[i]) \in {2, 4}

\* no cell of S has a better (neighbour score, centrality) key than x
BestKey(x, S) ==
    \A y \in S : ~KeyLess(SortKey(x, LastGrid), SortKey(y, LastGrid))

\* C9 (as stated): with a roster of even sizes only the candidate hunt
\* cells are the cells with (row+col) even, so the chosen cell has even
\* (row+col) on every grid; with a roster of mixed parity no filter is
\* applied: the chosen cell is a cell of highest density with the best key.
C9_EvenRosterEvenCell ==
    HuntStepChose =>
        /\ EvenSizes(remaining_ships) => Even(move.combat.cell)
        /\ ~EvenSizes(remaining_ships)
              => move.combat.cell \in LastBest /\ BestKey(move.combat.cell, LastBest)

\* C9 (amended): the parity filter works on the cells of highest density,
\* not on all candidates, and only when one of them is even.  The chosen
\* cell is always a cell of highest density.  With a roster of even sizes
\* only it has even (row+col) whenever some cell of highest density has,
\* and the best key among those even cells; when none is even, or when the
\* roster has a ship of odd size, no filter is applied: it has the best key
\* among all cells of highest density, whatever its parity.
C9_ParityAmongHighest ==
    HuntStepChose =>
        LET even == {x \in LastBest : Even(x)}
            filtered == IF EvenSizes(remaining_ships) /\ even # {} THEN even ELSE LastBest
        IN  /\ move.combat.cell \in filtered
            /\ BestKey(move.combat.cell, filtered)

\* the filter decided: with a roster of even sizes a cell of odd
\* (row+col) had the highest density and a better key than the chosen,
\* even, cell
C9_FilterDecided ==
    /\ HuntStepChose
    /\ EvenSizes(remaining_ships)
    /\ Even(move.combat.cell)
    /\ \E y \in LastBest :
          /\ ~Even(y)
          /\ KeyLess(SortKey(move.combat.cell, LastGrid), SortKey(y, LastGrid))

---------------------------------------------------------------------------
(* Cluster targets                                                         *)

Unknown(x) == x \in Cells /\ LastGrid[x] = "N"

\* the candidates of a cluster, from its cells as a set: the four
\* neighbours of a single Hit (up, down, left, right), the two cells past
\* the ends of a line (low end first); << >> for any other shape
Expected(cells) ==
    LET lo(k) == CHOOSE m \in {x[k] : x \in cells} : \A x \in cells : m <= x[k]
        hi(k) == CHOOSE m \in {x[k] : x \in cells} : \A x \in cells : m >= x[k]
    IN  IF Cardinality(cells) = 1
        THEN <<<<lo(1) - 1, lo(2)>>, <<lo(1) + 1, lo(2)>>,
               <<lo(1), lo(2) - 1>>, <<lo(1), lo(2) + 1>>>>
        ELSE IF lo(1) = hi(1) THEN <<<<lo(1), lo(2) - 1>>, <<lo(1), hi(2) + 1>>>>
        ELSE IF lo(2) = hi(2) THEN <<<<lo(1) - 1, lo(2)>>, <<hi(1) + 1, lo(2)>>>>
        ELSE << >>

Linear(cells) ==
    \/ Cardinality({x[1] : x \in cells}) = 1
    \/ Cardinality({x[2] : x \in cells}) = 1

\* C10: for every cluster _find_hit_clusters produced on the grid of the
\* call, of any shape, every cell _cluster_targets returns is on the board
\* and Unknown; for a single Hit the targets are its neighbours up, down,
\* left, right, in this order, that are on the board and Unknown; for a
\* line they are the cell before its low end and the cell after its high
\* end, in this order, that are on the board and Unknown.
C10_ClusterTargets ==
    Answered =>
        \A i \in 1 .. Len(LastClusters) :
            LET targets == _cluster_targets(LastClusters[i], LastGrid)
                cells == SeqToSet(LastClusters[i])
            IN  /\ \A k \in 1 .. Len(targets) : Unknown(targets[k])
                /\ Linear(cells)
                      => targets = SelectSeq(Expected(cells), Unknown)
                /\ Len(targets) <= 4

\* the grid of the call had a single Hit, some of whose neighbours were
\* dropped and some kept, next to a cluster that is no line
C10_EveryShape ==
    /\ Answered
    /\ \E i, k \in 1 .. Len(LastClusters) :
          /\ ~Linear(SeqToSet(LastClusters[i]))
          /\ Len(LastClusters[k]) = 1
          /\ Len(_cluster_targets(LastClusters[k], LastGrid)) \in 1 .. 3

---------------------------------------------------------------------------
(* Mass of the probability map                                             *)

\* the cells a placement of ship s anchored at a covers
FootprintOf(s, a, o) ==
    LET rows == SHIP_SIZES[s][1]
        cols == SHIP_SIZES[s][2]
    IN  {IF o = "H" THEN <<a[1] + dr, a[2] + dc>> ELSE <<a[1] + dc, a[2] + dr>> :
            dr \in 0 .. (rows - 1), dc \in 0 .. (cols - 1)}

\* the placements of ship s the map counts on a grid: the footprint is on
\* the board and holds no Miss, Sunk or Blocked cell (a Hit is let through)
Accepted(grid, s) ==
    {p \in {a \in Cells : grid[a] \notin {"M", "S", "B"}} \X {"H", "V"} :
        /\ FootprintOf(s, p[1], p[2]) \subseteq Cells
        /\ \A x \in FootprintOf(s, p[1], p[2]) : grid[x] \notin {"M", "S", "B"}}

\* how many times "prob_map[..][..] += weight" runs for ship s
WeightAdditions(grid, s) ==
    Cardinality(UNION {{x} \X (1 .. Additions(grid, s, x)) : x \in Cells})

\* the map of the grid and roster of the last call, as the list of its
\* values in row-major order
LastMap ==
    LET prob_map == _calculate_probability_map(LastGrid, remaining_ships)
    IN  Listed([i \in 1 .. Len(AllCellsInOrder) |-> prob_map[AllCellsInOrder[i]]])

NonNegative(values) == \A i \in 1 .. Len(values) : ~FLess(values[i], FZero)

PositiveCells(values) ==
    {AllCellsInOrder[i] : i \in {k \in 1 .. Len(values) : FPos(values[k])}}

\* C11 (as stated): every value of the map is non-negative and the mass a
\* ship type of the roster adds, over all cells and all its placements, is
\* exactly 1: the weight 1/length is added length times in all.
C11_UnitMass ==
    Answered =>
        /\ NonNegative(LastMap)
        /\ \A i \in 1 .. Len(remaining_ships) :
              WeightAdditions(LastGrid, remaining_ships[i])
                  = ShipLength(remaining_ships[i])

\* C11 (amended): every value of the map is non-negative, and a value is
\* positive exactly at the cells some counted placement covers.  The mass
\* is normalised per placement, not per ship type: every counted placement
\* of a ship adds 1/max(rows, cols) to each cell of its footprint, rows *
\* cols additions, so the mass a ship type adds is its number of counted
\* placements for the one-cell-wide ships and twice that number for
\* ship_2x3 (0 when nothing fits).  The map is a function of the grid and
\* the roster alone; every pair of them is met in a call without ability.
C11_MassPerPlacement ==
    (Answered /\ LastAbilities = {}) =>
        LET values == LastMap
        IN
        /\ NonNegative(values)
        /\ PositiveCells(values) =
              UNION {UNION {FootprintOf(s, p[1], p[2]) : p \in Accepted(LastGrid, s)} :
                        s \in SeqToSet(remaining_ships)}
        /\ \A i \in 1 .. Len(remaining_ships) :
              LET s == remaining_ships[i]
              IN  WeightAdditions(LastGrid, s)
                      = SHIP_SIZES[s][1] * SHIP_SIZES[s][2] * Cardinality(Accepted(LastGrid, s))

\* the map of the open board with the full roster: 80 placements of
\* ship_1x4 and 84 of ship_2x3 are counted
C11_OpenBoardMass ==
    /\ Opening
    /\ Cardinality(Accepted(LastGrid, "ship_1x4")) = 80
    /\ Cardinality(Accepted(LastGrid, "ship_2x3")) = 84
    /\ WeightAdditions(LastGrid, "ship_2x3") = 504

---------------------------------------------------------------------------
(* Remaining hits of a cluster                                             *)

Lengths(roster) == {ShipLength(roster[i]) : i \in 1 .. Len(roster)}

LastEstimate(i) == _estimate_remaining_hits(LastClusters[i], remaining_ships)

\* C12 (as stated): the estimate is 0 for a cluster in one row or one
\* column whose length meets or exceeds the smallest ship size of the
\* roster; it is 1 for a lone Hit whenever the roster holds a ship of size
\* 2; it is 0 for three collinear Hits when the roster holds ships of
\* length 3 only.
C12_AgainstSmallestShip ==
    Answered =>
        \A i \in 1 .. Len(LastClusters) :
            LET cells == SeqToSet(LastClusters[i])
                n == Cardinality(cells)
            IN  /\ (Linear(cells) /\ \E len \in Lengths(remaining_ships) : n >= len)
                      => LastEstimate(i) = 0
                /\ (n = 1 /\ 2 \in Lengths(remaining_ships)) => LastEstimate(i) = 1
                /\ (n = 3 /\ Linear(cells) /\ Lengths(remaining_ships) = {3})
                      => LastEstimate(i) = 0

\* What the loop computes: for a cluster in one row or one column the
\* first ship of the roster decides alone (0 when the cluster has at least
\* its length, else its length minus the cluster size); for any other shape
\* it is 0 when some ship of the roster is no longer than the cluster, else
\* 4 minus the cluster size, as for an empty roster.
EstimateByFirstShip ==
    Answered =>
        \A i \in 1 .. Len(LastClusters) :
            LET cells == SeqToSet(LastClusters[i])
                n == Cardinality(cells)
                expected ==
                    IF Len(remaining_ships) = 0 THEN 4 - n
                    ELSE IF Linear(cells)
                    THEN IF n >= ShipLength(remaining_ships[1]) THEN 0
                         ELSE ShipLength(remaining_ships[1]) - n
                    ELSE IF \E len \in Lengths(remaining_ships) : n >= len THEN 0
                    ELSE 4 - n
            IN  LastEstimate(i) = expected

---------------------------------------------------------------------------
(* Placements the map counts                                               *)

\* the placements of ship s with the whole footprint in bounds and Unknown
AllUnknown(grid, s) ==
    {p \in {a \in Cells : grid[a] = "N"} \X {"H", "V"} :
        /\ FootprintOf(s, p[1], p[2]) \subseteq Cells
        /\ \A x \in FootprintOf(s, p[1], p[2]) : grid[x] = "N"}

\* C13 (as stated): a placement adds weight only when its whole footprint
\* is in bounds and every cell of it is Unknown, so the placements that
\* _can_place_ship lets through are the all-Unknown ones, and a cell that
\* lies in no all-Unknown placement of a roster ship has value 0 in the map.
C13_OnlyUnknownFootprints ==
    (Answered /\ LastAbilities = {}) =>
        /\ \A s \in SeqToSet(remaining_ships), a \in Cells, o \in {"H", "V"} :
               _can_place_ship(LastGrid, a[1], a[2], SHIP_SIZES[s][1], SHIP_SIZES[s][2], o)
                   => <<a, o>> \in AllUnknown(LastGrid, s)
        /\ PositiveCells(LastMap) \subseteq
               UNION {UNION {FootprintOf(s, p[1], p[2]) : p \in AllUnknown(LastGrid, s)} :
                         s \in SeqToSet(remaining_ships)}

===========================================================================
